---- MODULE Spec2Model ----
(***************************************************************************)
(* Per-bounce material scattering of the CUDA path tracer                  *)
(* (src/src/interactions.h): calculateRandomDirectionInHemisphere,         *)
(* scatterRay and the isTerminated functor, driven by the bounce loop      *)
(* that scatters every active path segment and then partitions the active  *)
(* set with isTerminated.                                                  *)
(*                                                                         *)
(* Numbers.  float values are fixed-point integers: a direction, colour,   *)
(* cosine, probability or index of refraction x is the integer x * Q, and  *)
(* every product and quotient is rounded to the nearest unit, as a float   *)
(* operation rounds its result.  A position is an integer in units of      *)
(* 1 / (Q * 10^4), so that the two origin offsets normal * 0.0001f and     *)
(* v * 0.01f are the exact integer vectors v * 1 and v * 100.              *)
(***************************************************************************)
EXTENDS Integers, Sequences, FiniteSets, TLC

Q == 10 ^ 3

\* ---------------------------------------------------------------- bounds
\* Largest trace depth (initial remainingBounces) a scene is given.
MaxDepth == 2
\* Number of path segments traced concurrently in the parallel bounce loop.
NumSegments == 2

\* A segment whose counter is never decremented would be scattered for ever;
\* the loop is followed for one call more than the largest budget.
MaxCalls == MaxDepth + 1

\* ------------------------------------------------------- float arithmetic
\* a / b rounded to the nearest integer (halves away from zero), b > 0
RDiv(a, b) == IF a >= 0 THEN (2 * a + b) \div (2 * b)
              ELSE -((b - 2 * a) \div (2 * b))

\* float product and quotient of two fixed-point values
FMul(a, b) == RDiv(a * b, Q)
FDiv(a, b) == IF b > 0 THEN RDiv(a * Q, b) ELSE -RDiv(a * Q, -b)

Abs(a) == IF a < 0 THEN -a ELSE a
FMax(a, b) == IF a > b THEN a ELSE b

RECURSIVE SqrtBetween(_, _, _)
SqrtBetween(n, lo, hi) ==
    IF lo >= hi THEN lo
    ELSE LET mid == (lo + hi + 1) \div 2
         IN  IF mid * mid <= n THEN SqrtBetween(n, mid, hi)
             ELSE SqrtBetween(n, lo, mid - 1)

\* floor of the square root of the natural number n < 2^31
ISqrt(n) == SqrtBetween(n, 0, IF n < 2 ^ 15 THEN n ELSE 2 ^ 15)

\* sqrt of a fixed-point value
FSqrt(x) == ISqrt(x * Q)

\* powf(x, 5.0f)
Pow5(x) == FMul(FMul(FMul(FMul(x, x), x), x), x)

PI == (355 * Q) \div 113
TWO_PI == (710 * Q) \div 113
SQRT_OF_ONE_THIRD == ISqrt((Q * Q) \div 3)

\* cos and sin of around = u * TWO_PI, evaluated at the quarter turns the
\* modelled random draws produce
Quarter(around) == RDiv(4 * around, TWO_PI) % 4
Cos(around) == CASE Quarter(around) = 0 -> Q
                 [] Quarter(around) = 2 -> -Q
                 [] OTHER -> 0
Sin(around) == CASE Quarter(around) = 1 -> Q
                 [] Quarter(around) = 3 -> -Q
                 [] OTHER -> 0

\* ------------------------------------------------------------ glm::vec3
Vec3(x, y, z) == <<x, y, z>>
Zero3 == <<0, 0, 0>>
VAdd(a, b) == <<a[1] + b[1], a[2] + b[2], a[3] + b[3]>>
VSub(a, b) == <<a[1] - b[1], a[2] - b[2], a[3] - b[3]>>
VNeg(a) == <<-a[1], -a[2], -a[3]>>
\* vector * float, vector / float, vector * vector (component-wise)
VScale(a, s) == <<FMul(a[1], s), FMul(a[2], s), FMul(a[3], s)>>
VOver(a, s) == <<FDiv(a[1], s), FDiv(a[2], s), FDiv(a[3], s)>>
VMul(a, b) == <<FMul(a[1], b[1]), FMul(a[2], b[2]), FMul(a[3], b[3])>>
\* vector * integer literal, exact
VTimes(a, k) == <<a[1] * k, a[2] * k, a[3] * k>>

dot(a, b) == RDiv(a[1] * b[1] + a[2] * b[2] + a[3] * b[3], Q)
cross(a, b) == <<RDiv(a[2] * b[3] - a[3] * b[2], Q),
                 RDiv(a[3] * b[1] - a[1] * b[3], Q),
                 RDiv(a[1] * b[2] - a[2] * b[1], Q)>>
Length(a) == ISqrt(a[1] * a[1] + a[2] * a[2] + a[3] * a[3])
\* glm::normalize; the zero vector (0 * inf = NaN in the build) is not
\* produced by unit normals and unit directions
normalize(a) == IF Length(a) = 0 THEN Zero3
                ELSE <<RDiv(a[1] * Q, Length(a)), RDiv(a[2] * Q, Length(a)),
                       RDiv(a[3] * Q, Length(a))>>
\* glm::reflect(I, N) = I - N * dot(N, I) * 2
reflect(I, N) == VSub(I, VTimes(VScale(N, dot(N, I)), 2))
\* glm::refract(I, N, eta)
refract(I, N, eta) ==
    LET k == Q - FMul(FMul(eta, eta), Q - FMul(dot(N, I), dot(N, I)))
    IN  IF k < 0 THEN Zero3
        ELSE VSub(VScale(I, eta), VScale(N, FMul(eta, dot(N, I)) + FSqrt(k)))

\* ------------------------------------------------------------ data model
\* thrust::default_random_engine: the sequence of uniform values it will
\* produce; u01(rng) returns the head and advances the engine.
Draw(rng) == Head(rng)
Advance(rng) == Tail(rng)

PathSegment(origin, direction, color, remainingBounces) ==
    [ray |-> [origin |-> origin, direction |-> direction],
     color |-> color, remainingBounces |-> remainingBounces]

Material(color, specularColor, hasReflective, hasRefractive, indexOfRefraction) ==
    [color |-> color, specular |-> [color |-> specularColor],
     hasReflective |-> hasReflective, hasRefractive |-> hasRefractive,
     indexOfRefraction |-> indexOfRefraction]

\* origin offsets 0.0001f and 0.01f, in position units per direction unit
SurfaceOffset == 1
DielectricOffset == 100

\* -------------------------------------- calculateRandomDirectionInHemisphere
directionNotNormal(normal) ==
    IF Abs(normal[1]) < SQRT_OF_ONE_THIRD THEN Vec3(Q, 0, 0)
    ELSE IF Abs(normal[2]) < SQRT_OF_ONE_THIRD THEN Vec3(0, Q, 0)
    ELSE Vec3(0, 0, Q)

\* the direction returned and the engine after its two draws
calculateRandomDirectionInHemisphere(normal, rng) ==
    LET up == FSqrt(Draw(rng))
        over == FSqrt(Q - FMul(up, up))
        around == FMul(Draw(Advance(rng)), TWO_PI)
        perpendicularDirection1 ==
            normalize(cross(normal, directionNotNormal(normal)))
        perpendicularDirection2 ==
            normalize(cross(normal, perpendicularDirection1))
    IN  [direction |->
            VAdd(VAdd(VScale(normal, up),
                      VScale(perpendicularDirection1, FMul(Cos(around), over))),
                 VScale(perpendicularDirection2, FMul(Sin(around), over))),
         rng |-> Advance(Advance(rng))]

\* ------------------------------------------------------------- scatterRay
\* The result of one call on the referenced segment: the segment and the
\* engine afterwards, and the branch that ran.
Outcome(pathSegment, rng, branch) ==
    [pathSegment |-> pathSegment, rng |-> rng, branch |-> branch]

isDiffuse(m) == m.hasReflective = 0 /\ m.hasRefractive = 0
isMirror(m) == m.hasReflective = Q /\ m.hasRefractive = 0
\* faulty variant: the dielectric test looks at hasRefractive alone
isDielectric_RefractiveAlone(m) == m.hasRefractive = Q
isDielectric(m) == m.hasReflective = Q /\ m.hasRefractive = Q

\* faulty variant: the zero-pdf case takes one bounce off instead of cutting the path
diffuseZeroPdf_DecrementOnly(pathSegment) ==
    [pathSegment EXCEPT !.remainingBounces = @ - 1, !.color = Zero3]

\* pdf == 0.f: the path is cut, the ray is left as it was
diffuseZeroPdf(pathSegment) ==
    [pathSegment EXCEPT !.remainingBounces = 0, !.color = Zero3]

diffuseSample(pathSegment, intersect, normal, m, rayDirection) ==
    LET nDotr == Abs(dot(normal, rayDirection))
        pdf == FDiv(nDotr, PI)
        f == VOver(m.color, PI)
    IN  [pathSegment EXCEPT
            !.color = VMul(@, VOver(VScale(f, nDotr), pdf)),
            !.remainingBounces = @ - 1,
            !.ray.direction = rayDirection,
            !.ray.origin = VAdd(intersect, VTimes(normal, SurfaceOffset))]

diffuseScatter(pathSegment, intersect, normal, m, rng) ==
    LET sample == calculateRandomDirectionInHemisphere(normal, rng)
        nDotr == Abs(dot(normal, sample.direction))
        pdf == FDiv(nDotr, PI)
    IN  IF pdf = 0
        THEN Outcome(diffuseZeroPdf(pathSegment), sample.rng, "diffuseZeroPdf")
        ELSE Outcome(diffuseSample(pathSegment, intersect, normal, m,
                                   sample.direction),
                     sample.rng, "diffuse")

\* faulty variant: the mirror branch restarts the ray at the hit point itself
mirrorScatter_NoOffset(pathSegment, intersect, normal, m) ==
    [pathSegment EXCEPT
        !.color = VMul(@, m.specular.color),
        !.remainingBounces = @ - 1,
        !.ray.direction = reflect(pathSegment.ray.direction, normal),
        !.ray.origin = intersect]

mirrorScatter(pathSegment, intersect, normal, m) ==
    [pathSegment EXCEPT
        !.color = VMul(@, m.specular.color),
        !.remainingBounces = @ - 1,
        !.ray.direction = reflect(pathSegment.ray.direction, normal),
        !.ray.origin = VAdd(intersect, VTimes(normal, SurfaceOffset))]

\* faulty variant: the normal is never flipped for a ray leaving the medium
refractNormalOf_NoFlip(direction, normal) == normal

\* the working normal and the relative index of refraction
refractNormalOf(direction, normal) ==
    IF dot(direction, normal) > 0 THEN VNeg(normal) ELSE normal

niOverntOf(direction, normal, m) ==
    IF dot(direction, normal) > 0 THEN m.indexOfRefraction
    ELSE FDiv(Q, m.indexOfRefraction)

cosineOf(direction, normal) == dot(direction, refractNormalOf(direction, normal))

discriminantOf(direction, normal, m) ==
    LET niOvernt == niOverntOf(direction, normal, m)
        cosine == cosineOf(direction, normal)
    IN  Q - FMul(FMul(niOvernt, niOvernt), Q - FMul(cosine, cosine))

SchlickTerm(cosine) == Pow5(Q - FMax(0, cosine))

reflectProbOf(niOvernt, cosine) ==
    LET r0 == FMul(FDiv(Q - niOvernt, Q + niOvernt),
                   FDiv(Q - niOvernt, Q + niOvernt))
    IN  r0 + FMul(Q - r0, SchlickTerm(cosine))

\* random > reflectProb / 1.5f
choosesReflection(random, reflectProb) ==
    random > FDiv(reflectProb, (3 * Q) \div 2)

dielectricReflect(pathSegment, intersect, refractNormal, m) ==
    [pathSegment EXCEPT
        !.color = VMul(@, m.specular.color),
        !.remainingBounces = @ - 1,
        !.ray.direction = reflect(pathSegment.ray.direction, refractNormal),
        !.ray.origin = VAdd(intersect, VTimes(refractNormal, DielectricOffset))]

\* faulty variant: the refraction sub-branch forgets remainingBounces--
dielectricRefract_KeepsBudget(pathSegment, intersect, refractNormal, niOvernt, m) ==
    LET refractedDir == refract(pathSegment.ray.direction, refractNormal, niOvernt)
    IN  [pathSegment EXCEPT
            !.ray.direction = normalize(refractedDir),
            !.color = VMul(@, m.specular.color),
            !.ray.origin = VAdd(intersect, VTimes(refractedDir, DielectricOffset))]

dielectricRefract(pathSegment, intersect, refractNormal, niOvernt, m) ==
    LET refractedDir == refract(pathSegment.ray.direction, refractNormal, niOvernt)
    IN  [pathSegment EXCEPT
            !.ray.direction = normalize(refractedDir),
            !.remainingBounces = @ - 1,
            !.color = VMul(@, m.specular.color),
            !.ray.origin = VAdd(intersect, VTimes(refractedDir, DielectricOffset))]

\* faulty variant: total internal reflection carries the colour through
totalInternalReflect_KeepsColor(pathSegment, intersect, refractNormal) ==
    [pathSegment EXCEPT
        !.ray.direction = reflect(pathSegment.ray.direction, refractNormal),
        !.ray.origin = VAdd(intersect, VTimes(refractNormal, DielectricOffset)),
        !.remainingBounces = @ - 1]

totalInternalReflect(pathSegment, intersect, refractNormal) ==
    [pathSegment EXCEPT
        !.ray.direction = reflect(pathSegment.ray.direction, refractNormal),
        !.ray.origin = VAdd(intersect, VTimes(refractNormal, DielectricOffset)),
        !.color = Zero3,
        !.remainingBounces = @ - 1]

dielectricScatter(pathSegment, intersect, normal, m, rng) ==
    LET direction == pathSegment.ray.direction
        refractNormal == refractNormalOf(direction, normal)
        niOvernt == niOverntOf(direction, normal, m)
        cosine == cosineOf(direction, normal)
    IN  IF discriminantOf(direction, normal, m) > 0
        THEN IF choosesReflection(Draw(rng), reflectProbOf(niOvernt, cosine))
             THEN Outcome(dielectricReflect(pathSegment, intersect,
                                            refractNormal, m),
                          Advance(rng), "reflect")
             ELSE Outcome(dielectricRefract(pathSegment, intersect,
                                            refractNormal, niOvernt, m),
                          Advance(rng), "refract")
        ELSE Outcome(totalInternalReflect(pathSegment, intersect, refractNormal),
                     rng, "tir")

\* the body of scatterRay, acting on the segment its reference names
scatterSegment(pathSegment, intersect, normal, m, rng) ==
    IF isDiffuse(m)
    THEN diffuseScatter(pathSegment, intersect, normal, m, rng)
    ELSE IF isMirror(m)
    THEN Outcome(mirrorScatter(pathSegment, intersect, normal, m), rng, "mirror")
    ELSE IF isDielectric(m)
    THEN dielectricScatter(pathSegment, intersect, normal, m, rng)
    ELSE Outcome(pathSegment, rng, "none")

\* faulty variant: the result is written to a segment shared by every caller
scatterRay_SharedSegment(pathSegments, idx, intersect, normal, m, rng) ==
    LET out == scatterSegment(pathSegments[idx], intersect, normal, m, rng)
    IN  [pathSegments |-> [pathSegments EXCEPT ![1] = out.pathSegment],
         rng |-> out.rng, branch |-> out.branch]

\* scatterRay(pathSegments[idx], intersect, normal, m, rng): the segment is
\* passed by reference and mutated in place, the engine likewise.
scatterRay(pathSegments, idx, intersect, normal, m, rng) ==
    LET out == scatterSegment(pathSegments[idx], intersect, normal, m, rng)
    IN  [pathSegments |-> [pathSegments EXCEPT ![idx] = out.pathSegment],
         rng |-> out.rng, branch |-> out.branch]

\* faulty variant: a spent budget still counts as alive
isTerminated_AtLeastZero(pathSegment) == pathSegment.remainingBounces >= 0

\* struct isTerminated: true for a segment that is still alive
isTerminated(pathSegment) == pathSegment.remainingBounces > 0

\* ------------------------------------------------------------ the scene
White == Vec3(Q, Q, Q)
Grey == Vec3((4 * Q) \div 5, (4 * Q) \div 5, (4 * Q) \div 5)
Tint == Vec3(Q, Q \div 2, Q \div 4)

DiffuseGrey == Material(Grey, Zero3, 0, 0, 0)
MirrorTint == Material(White, Tint, Q, 0, 0)
Glass == Material(White, White, Q, Q, (3 * Q) \div 2)
Diamond == Material(White, Tint, Q, Q, (12 * Q) \div 5)
\* flag combinations no branch of scatterRay tests for
RefractiveOnly == Material(White, White, 0, Q, (3 * Q) \div 2)
HalfReflective == Material(White, White, Q \div 2, 0, 0)

\* unit normals and hit points (positions in units of 1 / (Q * 10^4))
Up == Vec3(0, Q, 0)
Down == Vec3(0, -Q, 0)
Slope == Vec3((3 * Q) \div 5, (4 * Q) \div 5, 0)
HitA == Vec3(0, 0, 0)
HitB == Vec3(2 * Q * 10 ^ 4, -(Q * 10 ^ 4), 5 * Q * 10 ^ 3)

Hit(intersect, normal, m) == [intersect |-> intersect, normal |-> normal, m |-> m]

\* what the intersection stage can report for a ray
Surfaces ==
    {Hit(HitA, Up, DiffuseGrey), Hit(HitB, Slope, DiffuseGrey),
     Hit(HitB, Up, MirrorTint),
     Hit(HitA, Up, Glass), Hit(HitB, Down, Glass), Hit(HitA, Slope, Diamond),
     Hit(HitA, Up, RefractiveOnly), Hit(HitB, Up, HalfReflective)}

\* values u01(rng) returns, and the engines a caller may pass
U01 == {0, Q \div 2, (3 * Q) \div 4}
Engines == {<<a, b>> : a \in U01, b \in U01}

\* camera rays: unit directions, leaving a camera that is on no surface
CameraOrigin == Vec3(0, 3 * Q * 10 ^ 4, 0)
CameraDirections ==
    {Vec3(0, -Q, 0), Vec3((3 * Q) \div 5, -((4 * Q) \div 5), 0),
     Vec3((4 * Q) \div 5, (3 * Q) \div 5, 0),
     Vec3((3 * Q) \div 5, (4 * Q) \div 5, 0)}

\* ------------------------------------------------------------- the state
VARIABLES
    scene,          \* trace depth, camera rays and, when the hits are fixed
                    \* in advance, each segment's hits and engines per bounce
    pathSegments,   \* the array of path segments
    active,         \* indices the bounce loop still traces
    pending,        \* active indices not yet scattered in this bounce
    calls,          \* scatterRay calls made on each segment
    binaryFlags,    \* the materials a segment met all had flags 0 or 1
    ev              \* the last operation: its inputs and what it did

vars == <<scene, pathSegments, active, pending, calls, binaryFlags, ev>>

Index == DOMAIN pathSegments

NoHit == Hit(Zero3, Zero3, DiffuseGrey)

Event(op, idx, before, hit, drawn, branch, checked) ==
    [op |-> op, idx |-> idx, before |-> before, intersect |-> hit.intersect,
     normal |-> hit.normal, m |-> hit.m, drawn |-> drawn, branch |-> branch,
     checked |-> checked]

\* generateRayFromCamera: every segment starts with the trace depth as budget
Start(traceDepth, directions, hits) ==
    /\ scene = [traceDepth |-> traceDepth,
                camera |-> [i \in DOMAIN directions |->
                               PathSegment(CameraOrigin, directions[i], White,
                                           traceDepth)],
                hits |-> hits]
    /\ pathSegments = scene.camera
    /\ active = DOMAIN directions
    /\ pending = {}
    /\ calls = [i \in DOMAIN directions |-> 0]
    /\ binaryFlags = [i \in DOMAIN directions |-> TRUE]
    /\ ev = Event("init", 0, pathSegments, NoHit, <<>>, "none", {})

\* one segment, any surface and any engine at every bounce
Init ==
    \E traceDepth \in -1 .. MaxDepth, d \in CameraDirections :
        Start(traceDepth, <<d>>, <<>>)

\* The shading step of one bounce for segment i: one scatterRay call.
Scatter(i, hit, rng) ==
    /\ i \in pending
    /\ calls[i] < MaxCalls
    /\ LET r == scatterRay(pathSegments, i, hit.intersect, hit.normal, hit.m, rng)
       IN  /\ pathSegments' = r.pathSegments
           /\ ev' = Event("scatter", i, pathSegments, hit,
                          SubSeq(rng, 1, Len(rng) - Len(r.rng)), r.branch, {})
    /\ pending' = pending \ {i}
    /\ calls' = [calls EXCEPT ![i] = @ + 1]
    /\ binaryFlags' = [binaryFlags EXCEPT
                          ![i] = @ /\ hit.m.hasReflective \in {0, Q}
                                   /\ hit.m.hasRefractive \in {0, Q}]
    /\ UNCHANGED <<scene, active>>

\* Stream compaction between bounces: keep the segments isTerminated accepts.
Partition ==
    /\ pending = {}
    /\ active # {}
    /\ active' = {i \in active : isTerminated(pathSegments[i])}
    /\ pending' = active'
    /\ ev' = Event("partition", 0, pathSegments, NoHit, <<>>, "none", active)
    /\ UNCHANGED <<scene, pathSegments, calls, binaryFlags>>

ScatterAny == \E i \in pending, hit \in Surfaces, rng \in Engines : Scatter(i, hit, rng)

Next == ScatterAny \/ Partition

Spec == Init /\ [][Next]_vars

\* ------------------------------------------- several segments in parallel
\* The hits and engines of a run fixed in advance: what the intersection
\* stage reports for a segment at each bounce and the engine seeded for
\* that (segment, bounce) pair.
Scripted(hit, rng) == [hit |-> hit, rng |-> rng]

ParHits ==
    <<Scripted(Hit(HitA, Up, DiffuseGrey), <<Q \div 4, Q \div 4>>),
      Scripted(Hit(HitB, Up, MirrorTint), <<0, 0>>),
      Scripted(Hit(HitA, Up, Glass), <<(3 * Q) \div 4, 0>>),
      Scripted(Hit(HitB, Down, Glass), <<Q \div 2, 0>>),
      Scripted(Hit(HitA, Slope, DiffuseGrey), <<0, Q \div 2>>)>>

Script(k) == [j \in 1 .. MaxCalls |-> ParHits[((k + j) % Len(ParHits)) + 1]]

ParCameras ==
    <<Vec3(0, -Q, 0), Vec3((4 * Q) \div 5, (3 * Q) \div 5, 0),
      Vec3((3 * Q) \div 5, -((4 * Q) \div 5), 0)>>

InitPar ==
    \E traceDepth \in 1 .. MaxDepth,
       ks \in [1 .. NumSegments -> 1 .. Len(ParHits)] :
        Start(traceDepth,
              [i \in 1 .. NumSegments |-> ParCameras[(i % Len(ParCameras)) + 1]],
              [i \in 1 .. NumSegments |-> Script(ks[i])])

\* the segments of one bounce are shaded in any order
ScatterScripted ==
    \E i \in pending :
        /\ calls[i] < MaxCalls
        /\ Scatter(i, scene.hits[i][calls[i] + 1].hit, scene.hits[i][calls[i] + 1].rng)

NextPar == ScatterScripted \/ Partition

SpecPar == InitPar /\ [][NextPar]_vars

\* ------------------------------------------------------------ properties
\* the segment the last scatterRay call was made on, before and after it
Scattered == ev.op = "scatter"
Before == ev.before[ev.idx]
After == pathSegments[ev.idx]

BinaryFlagged(m) == m.hasReflective \in {0, Q} /\ m.hasRefractive \in {0, Q}
FlagsOf(m) == <<m.hasReflective, m.hasRefractive>>

\* C1: a call that takes the diffuse branch with pdf # 0, the mirror branch
\* or any dielectric sub-branch (reflection, refraction, total internal
\* reflection) leaves remainingBounces exactly one below its value before.
C1_DecrementByOne ==
    (Scattered /\ ev.branch \in {"diffuse", "mirror", "reflect", "refract", "tir"})
        => After.remainingBounces = Before.remainingBounces - 1

C1_Witness ==
    /\ Scattered
    /\ ev.branch = "refract"
    /\ Before.remainingBounces = 2
    /\ After.remainingBounces = 1

\* C2: for a material whose two flags are each 0 or 1, scatterRay runs
\* exactly one of the diffuse, mirror and dielectric branches.
BranchesRun ==
    {b \in {"diffuse", "mirror", "dielectric"} :
        \/ b = "diffuse" /\ ev.branch \in {"diffuse", "diffuseZeroPdf"}
        \/ b = "mirror" /\ ev.branch = "mirror"
        \/ b = "dielectric" /\ ev.branch \in {"reflect", "refract", "tir"}}

C2_ExactlyOneBranch ==
    (Scattered /\ BinaryFlagged(ev.m)) => Cardinality(BranchesRun) = 1

\* C3: the termination predicate accepts a segment exactly when its
\* remainingBounces is above 0, and the partition that applies it leaves
\* every path segment as it was.
C3_AliveIffPositive ==
    ev.op = "partition" =>
        /\ \A i \in ev.checked :
              (i \in active) <=> (pathSegments[i].remainingBounces > 0)
        /\ pathSegments = ev.before

C3_Witness ==
    /\ ev.op = "partition"
    /\ \E i \in ev.checked : pathSegments[i].remainingBounces < 0 /\ i \notin active

C3_WitnessAlive ==
    /\ ev.op = "partition"
    /\ \E i \in ev.checked : pathSegments[i].remainingBounces = 1 /\ i \in active

\* C4 as stated: after the zero-pdf diffuse case and after total internal
\* reflection alike, the colour is (0,0,0), remainingBounces is 0 and the
\* termination predicate rejects the segment.
C4_BothDegenerateCasesTerminate ==
    (Scattered /\ ev.branch \in {"diffuseZeroPdf", "tir"})
        => /\ After.color = Zero3
           /\ After.remainingBounces = 0
           /\ ~isTerminated(After)

\* C4 amended: the zero-pdf diffuse case zeroes colour and budget, so the
\* segment is rejected; total internal reflection zeroes the colour and
\* takes one bounce off the budget, so the segment is rejected exactly when
\* its budget before the call was at most 1.
C4_DegenerateCases ==
    /\ (Scattered /\ ev.branch = "diffuseZeroPdf")
          => /\ After.color = Zero3
             /\ After.remainingBounces = 0
             /\ ~isTerminated(After)
    /\ (Scattered /\ ev.branch = "tir")
          => /\ After.color = Zero3
             /\ After.remainingBounces = Before.remainingBounces - 1
             /\ (~isTerminated(After) <=> Before.remainingBounces <= 1)

C4_Witness ==
    /\ Scattered
    /\ ev.branch = "diffuseZeroPdf"
    /\ Before.remainingBounces = 2
    /\ Before.color # Zero3

C4_WitnessTIR ==
    /\ Scattered
    /\ ev.branch = "tir"
    /\ Before.remainingBounces = 2
    /\ isTerminated(After)

\* C6: when the flag pair is none of (0,0), (1,0), (1,1), the call leaves
\* origin, direction, colour and remainingBounces as they were and draws no
\* random value.
C6_NoMatchNoMutation ==
    (Scattered /\ FlagsOf(ev.m) \notin {<<0, 0>>, <<Q, 0>>, <<Q, Q>>})
        => /\ pathSegments = ev.before
           /\ ev.drawn = <<>>

C6_Witness ==
    /\ Scattered
    /\ FlagsOf(ev.m) = <<0, Q>>
    /\ calls[ev.idx] = 2
    /\ Before.ray.origin # CameraOrigin

C6_WitnessFraction ==
    /\ Scattered
    /\ ev.m.hasReflective \notin {0, Q}

\* the vector the new origin is displaced along
ChosenOffset ==
    CASE ev.branch \in {"diffuse", "diffuseZeroPdf", "mirror"} ->
            VTimes(ev.normal, SurfaceOffset)
      [] ev.branch \in {"reflect", "tir"} ->
            VTimes(IF dot(Before.ray.direction, ev.normal) > 0
                   THEN VNeg(ev.normal) ELSE ev.normal, DielectricOffset)
      [] ev.branch = "refract" ->
            VTimes(refract(Before.ray.direction,
                           IF dot(Before.ray.direction, ev.normal) > 0
                           THEN VNeg(ev.normal) ELSE ev.normal,
                           IF dot(Before.ray.direction, ev.normal) > 0
                           THEN ev.m.indexOfRefraction
                           ELSE FDiv(Q, ev.m.indexOfRefraction)),
                   DielectricOffset)
      [] OTHER -> VSub(After.ray.origin, ev.intersect)

\* C7 as stated: after any call the origin is the hit point displaced by a
\* non-zero offset along the chosen normal or direction.
C7_OriginAlwaysDisplaced ==
    Scattered =>
        /\ After.ray.origin = VAdd(ev.intersect, ChosenOffset)
        /\ After.ray.origin # ev.intersect

\* C7 amended: after a call that takes the diffuse branch with pdf # 0, the
\* mirror branch or a dielectric sub-branch, the origin is the hit point
\* plus a non-zero offset along the chosen normal or direction; the
\* zero-pdf diffuse case and a call that matches no branch leave the origin
\* as it was.
C7_OriginDisplacedWhenScattered ==
    /\ (Scattered /\ ev.branch \in {"diffuse", "mirror", "reflect", "refract", "tir"})
          => /\ After.ray.origin = VAdd(ev.intersect, ChosenOffset)
             /\ ChosenOffset # Zero3
             /\ After.ray.origin # ev.intersect
    /\ (Scattered /\ ev.branch \in {"diffuseZeroPdf", "none"})
          => After.ray.origin = Before.ray.origin

C7_Witness ==
    /\ Scattered
    /\ ev.branch = "refract"
    /\ dot(Before.ray.direction, ev.normal) > 0
    /\ After.ray.origin # Before.ray.origin

C7_WitnessZeroPdf ==
    /\ Scattered
    /\ ev.branch = "diffuseZeroPdf"
    /\ After.ray.origin # VAdd(ev.intersect, VTimes(ev.normal, SurfaceOffset))

\* C8: a dielectric of index 1.5 met by a ray that leaves the medium
\* (dot(direction, normal) > 0) with 1 - eta^2 (1 - cosine^2) <= 0, eta the
\* index, takes total internal reflection: the colour becomes (0,0,0) and the
\* direction is the incoming one mirrored about -normal.
ExitsBeyondCriticalAngle ==
    /\ FlagsOf(ev.m) = <<Q, Q>>
    /\ ev.m.indexOfRefraction = (3 * Q) \div 2
    /\ dot(Before.ray.direction, ev.normal) > 0
    /\ Q - FMul(FMul(ev.m.indexOfRefraction, ev.m.indexOfRefraction),
                Q - FMul(dot(Before.ray.direction, VNeg(ev.normal)),
                         dot(Before.ray.direction, VNeg(ev.normal)))) <= 0

C8_TotalInternalReflection ==
    (Scattered /\ ExitsBeyondCriticalAngle)
        => /\ ev.branch = "tir"
           /\ After.color = Zero3
           /\ After.ray.direction =
                  VSub(Before.ray.direction,
                       VTimes(VScale(VNeg(ev.normal),
                                     dot(VNeg(ev.normal), Before.ray.direction)), 2))

C8_Witness ==
    /\ Scattered
    /\ ExitsBeyondCriticalAngle
    /\ Before.color # Zero3
    /\ After.ray.direction # Before.ray.direction

\* C9: a segment that starts with remainingBounces = N >= 0 and only meets
\* materials with flags 0 or 1 is scattered at most N times before the
\* termination predicate rejects it.
C9_AtMostNCalls ==
    \A i \in Index :
        (scene.traceDepth >= 0 /\ binaryFlags[i]) => calls[i] <= scene.traceDepth

\* C10: in the dielectric branch the cosine taken with the working normal
\* is never positive, so max(0, cosine) is 0 and the Schlick term is 1;
\* when the discriminant is positive reflectProb is 1 and reflection is
\* chosen exactly when the draw exceeds 1 / 1.5, whatever the angle and the
\* index of refraction.
C10_FresnelSplitIsConstant ==
    (Scattered /\ FlagsOf(ev.m) = <<Q, Q>>) =>
        LET direction == Before.ray.direction
            cosine == cosineOf(direction, ev.normal)
        IN  /\ cosine <= 0
            /\ FMax(0, cosine) = 0
            /\ SchlickTerm(cosine) = Q
            /\ (discriminantOf(direction, ev.normal, ev.m) > 0) =>
                  /\ reflectProbOf(niOverntOf(direction, ev.normal, ev.m), cosine) = Q
                  /\ Len(ev.drawn) = 1
                  /\ ev.branch \in {"reflect", "refract"}
                  /\ (ev.branch = "reflect") <=> (ev.drawn[1] > FDiv(Q, (3 * Q) \div 2))

C10_Witness ==
    /\ Scattered
    /\ ev.m = Diamond
    /\ dot(Before.ray.direction, ev.normal) > 0
    /\ cosineOf(Before.ray.direction, ev.normal) < 0
    /\ ev.branch = "reflect"

\* what n calls make of a segment traced on its own
RECURSIVE Replay(_, _, _)
Replay(pathSegment, hits, n) ==
    IF n = 0 THEN pathSegment
    ELSE scatterRay(<<Replay(pathSegment, hits, n - 1)>>, 1, hits[n].hit.intersect,
                    hits[n].hit.normal, hits[n].hit.m, hits[n].rng).pathSegments[1]

\* C5: whatever the order in which the segments of a bounce are scattered,
\* each segment is at every moment what its own calls, with its own hits
\* and engines, make of it when traced alone: a call on one segment changes
\* no other segment, and the result does not depend on the interleaving.
C5_SegmentsIndependent ==
    \A i \in Index :
        pathSegments[i] = Replay(scene.camera[i], scene.hits[i], calls[i])

C5_Witness ==
    /\ Scattered
    /\ ev.idx = 1
    /\ calls[1] = 2
    /\ calls[2] = 2
    /\ pathSegments[1] # pathSegments[2]
    /\ pathSegments[2] # scene.camera[2]

====
